---- MODULE Spec2Model ----
(***************************************************************************)
(* Model of the invoice extractor scripts:                                 *)
(*   invoice.py                          (one upload, PDF text or image)   *)
(*   multi_paged_invoice.py              (first PDF, or all images at once)*)
(*   multi_paged_invoice_multi_files.py  (batch loop over the uploads)     *)
(* A model reply is a sequence of lexical tokens; json.loads is a          *)
(* recursive-descent parser over those tokens.                             *)
(***************************************************************************)
EXTENDS Integers, Sequences, FiniteSets, TLC

VARIABLES variant, uploaded_files, pc, i, fs, tmp_file_path, images, preview,
          text_content, calls, in_flight, info_text, all_extracted_data,
          summary_df, line_items, errors, exc, combined_df, info_formatted

vars == <<variant, uploaded_files, pc, i, fs, tmp_file_path, images, preview,
          text_content, calls, in_flight, info_text, all_extracted_data,
          summary_df, line_items, errors, exc, combined_df, info_formatted>>

(* ---------------------------- bounds ---------------------------------- *)
MaxFiles == 2
MaxPages == 1
MaxTextLen == 5

(* ------------------------- reply tokens ------------------------------- *)
\* A reply is a sequence of tokens.  "{" "}" "," are the JSON punctuation,
\* "x" is a run of prose without braces, a member token is a complete
\* `"key": value` pair with a scalar or list value, and "n" is a key with
\* its colon (`"details":`) that must be followed by an object value.
\* line_items comes as an empty list ("l0"), a list of items ("l1") or a
\* plain string ("ls").
MemberTok == {"d", "t", "u", "l0", "l1", "ls"}
KeyTok == {"n"}

KeyOf(tok) ==
    CASE tok = "d" -> "invoice_date"
      [] tok = "t" -> "total_amount"
      [] tok = "u" -> "notes"
      [] tok = "l0" -> "line_items"
      [] tok = "l1" -> "line_items"
      [] tok = "ls" -> "line_items"
      [] tok = "n" -> "details"

ValOf(tok) ==
    CASE tok = "d" -> "2024-01-05"
      [] tok = "t" -> "120.00"
      [] tok = "u" -> "n/a"
      [] tok = "l0" -> "[]"
      [] tok = "l1" -> "[item]"
      [] tok = "ls" -> "n/a"

\* dict[key] = val (a later duplicate key replaces the earlier value)
DictSet(dict, key, val) ==
    [k \in (DOMAIN dict) \cup {key} |-> IF k = key THEN val ELSE dict[k]]

EmptyDict == [k \in {} |-> "null"]

\* dict.pop(key, default): <<value, the dict without the key>>
DictPop(dict, key, default) ==
    IF key \in DOMAIN dict
    THEN <<dict[key], [k \in (DOMAIN dict) \ {key} |-> dict[k]]>>
    ELSE <<default, dict>>

\* Python truthiness of a decoded value
Truthy(v) == v \notin {"[]", "null", ""}

\* pd.DataFrame(v) builds a table from a list and raises ValueError
\* ("DataFrame constructor not properly called!") on a plain string
DataFrameAccepts(v) == v \in {"[]", "[item]"}

(* ------------------------- str.find / slicing ------------------------- *)
\* str.find(ch): 0-based index of the first occurrence, -1 when absent
Find(s, ch) ==
    IF \E k \in 1..Len(s) : s[k] = ch
    THEN (CHOOSE k \in 1..Len(s) : s[k] = ch /\ \A j \in 1..(k-1) : s[j] # ch) - 1
    ELSE -1

\* str.rfind(ch): 0-based index of the last occurrence, -1 when absent
RFind(s, ch) ==
    IF \E k \in 1..Len(s) : s[k] = ch
    THEN (CHOOSE k \in 1..Len(s) : s[k] = ch /\ \A j \in (k+1)..Len(s) : s[j] # ch) - 1
    ELSE -1

\* s[a:b] with Python's rules: a negative index counts from the end, and
\* both ends are clamped to 0..len(s)
PyIndex(s, a) ==
    LET n == Len(s)
        b == IF a < 0 THEN a + n ELSE a
    IN  IF b < 0 THEN 0 ELSE IF b > n THEN n ELSE b

PySlice(s, a, b) ==
    LET lo == PyIndex(s, a)
        hi == PyIndex(s, b)
    IN  IF lo < hi THEN SubSeq(s, lo + 1, hi) ELSE <<>>

(* ------------------------------ json.loads ---------------------------- *)
Fail == [ok |-> FALSE, pos |-> 0, val |-> EmptyDict]

RECURSIVE ParseObject(_, _)
RECURSIVE ParseMembers(_, _, _)

\* after a member ending before position p: "}" closes, "," continues
ParseAfterMember(s, p, acc) ==
    IF p > Len(s) THEN Fail
    ELSE IF s[p] = "}" THEN [ok |-> TRUE, pos |-> p + 1, val |-> acc]
    ELSE IF s[p] = "," THEN ParseMembers(s, p + 1, acc)
    ELSE Fail

ParseMembers(s, p, acc) ==
    IF p > Len(s) THEN Fail
    ELSE IF s[p] \in MemberTok
         THEN ParseAfterMember(s, p + 1, DictSet(acc, KeyOf(s[p]), ValOf(s[p])))
    ELSE IF s[p] \in KeyTok
         THEN LET r == ParseObject(s, p + 1)
              IN  IF r.ok
                  THEN ParseAfterMember(s, r.pos, DictSet(acc, KeyOf(s[p]), r.val))
                  ELSE Fail
    ELSE Fail

\* an object starting at position p: [ok, pos after it, the dict]
ParseObject(s, p) ==
    IF p > Len(s) \/ s[p] # "{" THEN Fail
    ELSE IF p + 1 <= Len(s) /\ s[p + 1] = "}"
         THEN [ok |-> TRUE, pos |-> p + 2, val |-> EmptyDict]
    ELSE ParseMembers(s, p + 1, EmptyDict)

\* json.loads(s): the whole of s must be one value; a value that starts
\* with "{" is an object.  ok = FALSE is json.JSONDecodeError (empty input,
\* a syntax error, or extra data after the value).
Loads(s) ==
    LET r == ParseObject(s, 1)
    IN  IF r.ok /\ r.pos = Len(s) + 1 THEN [ok |-> TRUE, val |-> r.val]
        ELSE [ok |-> FALSE, val |-> EmptyDict]

\* json_start = info_text.find("{"); json_end = info_text.rfind("}") + 1;
\* json.loads(info_text[json_start:json_end])
JsonStart(text) == Find(text, "{")
\* mutant of JsonEnd: the "+ 1" forgotten, so the slice loses its last brace
JsonEnd_NoPlusOne(text) == RFind(text, "}")
JsonEnd(text) == RFind(text, "}") + 1
ParseReply(text) == Loads(PySlice(text, JsonStart(text), JsonEnd(text)))

(* ------------------------------ inputs -------------------------------- *)
Variants == {"invoice", "multi_paged", "multi_files"}
Names == {"inv_a", "inv_b"}

\* an upload: its filename, its MIME kind and, for a PDF, its page count
PdfDocs == [name : Names, type : {"pdf"}, pages : 0..MaxPages]
ImageDocs == [name : Names, type : {"image"}, pages : {1}]
Docs == PdfDocs \cup ImageDocs

RECURSIVE SeqsUpTo(_, _)
SeqsUpTo(S, n) ==
    IF n = 0 THEN {<<>>}
    ELSE LET shorter == SeqsUpTo(S, n - 1)
         IN  shorter \cup {Append(q, e) : q \in {t \in shorter : Len(t) = n - 1}, e \in S}

\* what pages[0].extract_text() can return
PageTexts == {"", "text"}

\* response.text is None when the response carries no text part
NoText == <<"None">>

\* the replies the model is let to give in the script runs
Replies ==
    { <<"x", "{", "d", ",", "t", "}", "x">>,
      <<"{", "d", ",", "u", "}">>,
      <<"{", "d", ",", "t", ",", "l1", "}">>,
      <<"{", "l0", "}">>,
      <<"{", "d", ",", "ls", "}">>,
      <<"{", "x", "}", "{", "d", ",", "t", "}">>,
      <<"x">> }

\* every reply text of at most MaxTextLen tokens
Alphabet == {"{", "}", ",", "x", "d", "n"}
Texts == SeqsUpTo(Alphabet, MaxTextLen)

\* the declared schema of the batch variant's prompt, cut down to the two
\* fields the member tokens can name
SchemaKeys == {"invoice_date", "total_amount"}

(* ------------------------------ state --------------------------------- *)
NoExc == [kind |-> "none", doc |-> 0]
Unassigned == [set |-> FALSE, list |-> <<>>]
NotShown == [shown |-> FALSE, rows |-> EmptyDict]
\* info_formatted before any json.loads: outcome is what the json.loads
\* statement did ("record", "JSONDecodeError", or "AttributeError" when
\* info_text is None), val the decoded dict
NotParsed == [outcome |-> "none", val |-> EmptyDict]
N == Len(uploaded_files)

\* pdf_to_images(path): one image per page, in page order
pdf_to_images(d) ==
    [set |-> TRUE, list |-> [p \in 1..uploaded_files[d].pages |-> <<d, p>>]]

Init ==
    /\ variant \in Variants
    /\ uploaded_files \in SeqsUpTo(Docs, MaxFiles) \ {<<>>}
    /\ variant = "invoice" => Len(uploaded_files) = 1
    /\ pc = "write"
    /\ i = 1
    /\ fs = {}
    /\ tmp_file_path = 0
    /\ images = Unassigned
    /\ preview = <<>>
    /\ text_content = ""
    /\ calls = <<>>
    /\ in_flight = {}
    /\ info_text = <<>>
    /\ all_extracted_data = <<>>
    /\ summary_df = NotShown
    /\ line_items = NotShown
    /\ errors = <<>>
    /\ exc = NoExc
    /\ combined_df = <<>>
    /\ info_formatted = NotParsed

(* ------------------------------ actions ------------------------------- *)
\* with tempfile.NamedTemporaryFile(delete=False, ...) as tmp_file:
\*     tmp_file.write(uploaded_file.getvalue()); tmp_file_path = tmp_file.name
\* The file exists from its creation.  A write that raises leaves it on disk
\* (delete=False) and ends the script run before the try is entered.
WriteTemp ==
    /\ pc = "write"
    /\ i <= N
    /\ \/ /\ fs' = fs \cup {[id |-> i, written |-> TRUE]}
          /\ tmp_file_path' = i
          /\ pc' = "try"
          /\ exc' = exc
       \/ /\ fs' = fs \cup {[id |-> i, written |-> FALSE]}
          /\ tmp_file_path' = tmp_file_path
          /\ pc' = "aborted"
          /\ exc' = [kind |-> "OSError", doc |-> i]
    /\ UNCHANGED <<variant, uploaded_files, i, images, preview, text_content, calls,
                   in_flight, info_text, all_extracted_data, summary_df, line_items,
                   errors, combined_df, info_formatted>>

\* invoice.py: PdfReader, first page's text, iframe preview of the temp file
ReadPdfText ==
    /\ pc = "try"
    /\ variant = "invoice"
    /\ uploaded_files[i].type = "pdf"
    /\ \/ /\ exc' = [kind |-> "PdfReadError", doc |-> i]
          /\ pc' = "finally"
          /\ UNCHANGED <<text_content, preview>>
       \/ /\ \E t \in (IF uploaded_files[i].pages > 0 THEN PageTexts ELSE {""}) :
                text_content' = t
          /\ preview' = Append(preview, [doc |-> i, imgs |-> <<<<tmp_file_path, 0>>>>])
          /\ pc' = "call"
          /\ exc' = exc
    /\ UNCHANGED <<variant, uploaded_files, i, fs, tmp_file_path, images, calls,
                   in_flight, info_text, all_extracted_data, summary_df, line_items,
                   errors, combined_df, info_formatted>>

\* multi_paged_invoice.py, multi_paged_invoice_multi_files.py: PdfReader,
\* images = pdf_to_images(...) only when the PDF has a page, then the preview
\* reads images (NameError when it was never assigned).
ReadPdfImages ==
    /\ pc = "try"
    /\ variant \in {"multi_paged", "multi_files"}
    /\ uploaded_files[i].type = "pdf"
    /\ \/ /\ exc' = [kind |-> "PdfReadError", doc |-> i]
          /\ pc' = "finally"
          /\ UNCHANGED <<images, preview>>
       \/ /\ images' = IF uploaded_files[i].pages > 0
                       THEN pdf_to_images(tmp_file_path) ELSE images
          /\ IF images'.set
             THEN /\ preview' = Append(preview, [doc |-> i, imgs |-> images'.list])
                  /\ pc' = "call"
                  /\ exc' = exc
             ELSE /\ preview' = preview
                  /\ pc' = "finally"
                  /\ exc' = [kind |-> "NameError", doc |-> i]
    /\ UNCHANGED <<variant, uploaded_files, i, fs, tmp_file_path, text_content, calls,
                   in_flight, info_text, all_extracted_data, summary_df, line_items,
                   errors, combined_df, info_formatted>>

\* invoice.py, multi_paged_invoice_multi_files.py: image = Image.open(uploaded_file)
OpenImage ==
    /\ pc = "try"
    /\ variant \in {"invoice", "multi_files"}
    /\ uploaded_files[i].type = "image"
    /\ \/ /\ exc' = [kind |-> "UnidentifiedImageError", doc |-> i]
          /\ pc' = "finally"
          /\ preview' = preview
       \/ /\ preview' = Append(preview, [doc |-> i, imgs |-> <<<<i, 1>>>>])
          /\ pc' = "call"
          /\ exc' = exc
    /\ UNCHANGED <<variant, uploaded_files, i, fs, tmp_file_path, images, text_content,
                   calls, in_flight, info_text, all_extracted_data, summary_df,
                   line_items, errors, combined_df, info_formatted>>

\* multi_paged_invoice.py: images = []; Image.open of every upload in turn.
\* Image.open cannot identify a PDF, and may fail on any image.
OpenImages ==
    /\ pc = "try"
    /\ variant = "multi_paged"
    /\ uploaded_files[1].type = "image"
    /\ \/ \E k \in 1..N :
            /\ \A j \in 1..(k - 1) : uploaded_files[j].type = "image"
            /\ images' = [set |-> TRUE, list |-> [j \in 1..(k - 1) |-> <<j, 1>>]]
            /\ exc' = [kind |-> "UnidentifiedImageError", doc |-> k]
            /\ pc' = "finally"
            /\ preview' = preview
       \/ /\ \A j \in 1..N : uploaded_files[j].type = "image"
          /\ images' = [set |-> TRUE, list |-> [j \in 1..N |-> <<j, 1>>]]
          /\ preview' = Append(preview, [doc |-> i, imgs |-> images'.list])
          /\ pc' = "call"
          /\ exc' = exc
    /\ UNCHANGED <<variant, uploaded_files, i, fs, tmp_file_path, text_content, calls,
                   in_flight, info_text, all_extracted_data, summary_df, line_items,
                   errors, combined_df, info_formatted>>

\* the contents handed to generate_content
Request ==
    IF uploaded_files[i].type = "pdf"
    THEN IF variant = "invoice"
         THEN [docs |-> {i}, payload |-> "text", empty |-> (text_content = "")]
         ELSE [docs |-> {tmp_file_path}, payload |-> "pdf",
               empty |-> (uploaded_files[tmp_file_path].pages = 0)]
    ELSE IF variant = "multi_paged"
         THEN [docs |-> {images.list[j][1] : j \in 1..Len(images.list)},
               payload |-> "image", empty |-> (images.list = <<>>)]
         ELSE [docs |-> {i}, payload |-> "image", empty |-> FALSE]

\* mutant of Call: the coroutine is scheduled and not awaited, so the script
\* goes on to the cleanup while the call is still in flight
Call_NotAwaited ==
    /\ pc = "call"
    /\ calls' = Append(calls, Request)
    /\ in_flight' = in_flight \cup {Len(calls) + 1}
    /\ pc' = "finally"
    /\ UNCHANGED <<variant, uploaded_files, i, fs, tmp_file_path, images, preview,
                   text_content, info_text, all_extracted_data, summary_df, line_items,
                   errors, exc, combined_df, info_formatted>>

\* asyncio.run(extract_info_from_...(...)): generate_content is called and
\* the script blocks on it
Call ==
    /\ pc = "call"
    /\ calls' = Append(calls, Request)
    /\ in_flight' = in_flight \cup {Len(calls) + 1}
    /\ pc' = "await"
    /\ UNCHANGED <<variant, uploaded_files, i, fs, tmp_file_path, images, preview,
                   text_content, info_text, all_extracted_data, summary_df, line_items,
                   errors, exc, combined_df, info_formatted>>

\* the call returns: info_text = response.text
CallReturns ==
    /\ pc = "await"
    /\ in_flight' = in_flight \ {Len(calls)}
    /\ \E r \in Replies \cup {NoText} : info_text' = r
    /\ pc' = "reply"
    /\ UNCHANGED <<variant, uploaded_files, i, fs, tmp_file_path, images, preview,
                   text_content, calls, all_extracted_data, summary_df, line_items,
                   errors, exc, combined_df, info_formatted>>

\* the call raises: except Exception as e: st.error("Model failed ...")
CallRaises ==
    /\ pc = "await"
    /\ in_flight' = in_flight \ {Len(calls)}
    /\ errors' = Append(errors, [kind |-> "model_failed", doc |-> i])
    /\ pc' = "finally"
    /\ UNCHANGED <<variant, uploaded_files, i, fs, tmp_file_path, images, preview,
                   text_content, calls, info_text, all_extracted_data, summary_df,
                   line_items, exc, combined_df, info_formatted>>

\* mutant of ParseStore: the batch result is assigned the new entry instead
\* of having it appended
ParseStore_Overwrite ==
    /\ pc = "reply"
    /\ variant = "multi_files"
    /\ IF info_text = NoText
       THEN /\ info_formatted' = [outcome |-> "AttributeError", val |-> EmptyDict]
            /\ errors' = Append(errors, [kind |-> "model_failed", doc |-> i])
            /\ all_extracted_data' = all_extracted_data
       ELSE IF ParseReply(info_text).ok
       THEN /\ info_formatted' = [outcome |-> "record", val |-> ParseReply(info_text).val]
            /\ all_extracted_data' =
                  <<[filename |-> uploaded_files[i].name,
                     data |-> ParseReply(info_text).val]>>
            /\ errors' = errors
       ELSE /\ info_formatted' = [outcome |-> "JSONDecodeError", val |-> EmptyDict]
            /\ errors' = Append(errors, [kind |-> "parse_failed", doc |-> i])
            /\ all_extracted_data' = all_extracted_data
    /\ pc' = "finally"
    /\ UNCHANGED <<variant, uploaded_files, i, fs, tmp_file_path, images, preview,
                   text_content, calls, in_flight, info_text, summary_df, line_items,
                   exc, combined_df>>

\* multi_paged_invoice_multi_files.py: slice, json.loads, append on success;
\* JSONDecodeError -> "Could not parse valid JSON"; None.find is an
\* AttributeError, caught by the outer except Exception
ParseStore ==
    /\ pc = "reply"
    /\ variant = "multi_files"
    /\ IF info_text = NoText
       THEN /\ info_formatted' = [outcome |-> "AttributeError", val |-> EmptyDict]
            /\ errors' = Append(errors, [kind |-> "model_failed", doc |-> i])
            /\ all_extracted_data' = all_extracted_data
       ELSE IF ParseReply(info_text).ok
       THEN /\ info_formatted' = [outcome |-> "record", val |-> ParseReply(info_text).val]
            /\ all_extracted_data' =
                  Append(all_extracted_data,
                         [filename |-> uploaded_files[i].name,
                          data |-> ParseReply(info_text).val])
            /\ errors' = errors
       ELSE /\ info_formatted' = [outcome |-> "JSONDecodeError", val |-> EmptyDict]
            /\ errors' = Append(errors, [kind |-> "parse_failed", doc |-> i])
            /\ all_extracted_data' = all_extracted_data
    /\ pc' = "finally"
    /\ UNCHANGED <<variant, uploaded_files, i, fs, tmp_file_path, images, preview,
                   text_content, calls, in_flight, info_text, summary_df, line_items,
                   exc, combined_df>>

\* invoice.py, multi_paged_invoice.py: slice, json.loads, pop line_items,
\* summary table of the remaining keys, line-items table when truthy; a
\* ValueError of pd.DataFrame(line_items) is caught by the outer
\* except Exception ("Model failed to extract info") after the summary
\* table has been shown
ParseDisplay ==
    /\ pc = "reply"
    /\ variant \in {"invoice", "multi_paged"}
    /\ IF info_text = NoText
       THEN /\ info_formatted' = [outcome |-> "AttributeError", val |-> EmptyDict]
            /\ errors' = Append(errors, [kind |-> "model_failed", doc |-> i])
            /\ UNCHANGED <<summary_df, line_items>>
       ELSE IF ParseReply(info_text).ok
       THEN LET popped == DictPop(ParseReply(info_text).val, "line_items", "[]")
            IN  /\ info_formatted' = [outcome |-> "record", val |-> ParseReply(info_text).val]
                /\ summary_df' = [shown |-> TRUE, rows |-> popped[2]]
                /\ line_items' = IF Truthy(popped[1]) /\ DataFrameAccepts(popped[1])
                                 THEN [shown |-> TRUE, rows |-> popped[1]]
                                 ELSE [shown |-> FALSE, rows |-> popped[1]]
                /\ errors' = IF Truthy(popped[1]) /\ ~DataFrameAccepts(popped[1])
                             THEN Append(errors, [kind |-> "model_failed", doc |-> i])
                             ELSE errors
       ELSE /\ info_formatted' = [outcome |-> "JSONDecodeError", val |-> EmptyDict]
            /\ errors' = Append(errors, [kind |-> "parse_failed", doc |-> i])
            /\ UNCHANGED <<summary_df, line_items>>
    /\ pc' = "finally"
    /\ UNCHANGED <<variant, uploaded_files, i, fs, tmp_file_path, images, preview,
                   text_content, calls, in_flight, info_text, all_extracted_data,
                   exc, combined_df>>

\* mutant of Finally: the cleanup sits after the try body instead of in a
\* finally clause, so an uncaught exception skips it
Finally_SkipOnError ==
    /\ pc = "finally"
    /\ fs' = IF exc # NoExc THEN fs ELSE {f \in fs : f.id # tmp_file_path}
    /\ IF exc # NoExc
       THEN /\ pc' = "aborted"
            /\ i' = i
       ELSE IF variant = "multi_files"
       THEN /\ pc' = "write"
            /\ i' = i + 1
       ELSE /\ pc' = "done"
            /\ i' = i
    /\ UNCHANGED <<variant, uploaded_files, tmp_file_path, images, preview,
                   text_content, calls, in_flight, info_text, all_extracted_data,
                   summary_df, line_items, errors, exc, combined_df, info_formatted>>

\* finally: if os.path.exists(tmp_file_path): os.unlink(tmp_file_path);
\* then a pending exception ends the script run, else the loop goes on
Finally ==
    /\ pc = "finally"
    /\ fs' = {f \in fs : f.id # tmp_file_path}
    /\ IF exc # NoExc
       THEN /\ pc' = "aborted"
            /\ i' = i
       ELSE IF variant = "multi_files"
       THEN /\ pc' = "write"
            /\ i' = i + 1
       ELSE /\ pc' = "done"
            /\ i' = i
    /\ UNCHANGED <<variant, uploaded_files, tmp_file_path, images, preview,
                   text_content, calls, in_flight, info_text, all_extracted_data,
                   summary_df, line_items, errors, exc, combined_df, info_formatted>>

\* if all_extracted_data: one column per entry, named by its filename,
\* concatenated; shown transposed
Table ==
    /\ pc = "write"
    /\ variant = "multi_files"
    /\ i > N
    /\ combined_df' = [k \in 1..Len(all_extracted_data) |->
                          [row |-> all_extracted_data[k].filename,
                           fields |-> DOMAIN all_extracted_data[k].data]]
    /\ pc' = "done"
    /\ UNCHANGED <<variant, uploaded_files, i, fs, tmp_file_path, images, preview,
                   text_content, calls, in_flight, info_text, all_extracted_data,
                   summary_df, line_items, errors, exc, info_formatted>>

Next ==
    \/ WriteTemp
    \/ ReadPdfText
    \/ ReadPdfImages
    \/ OpenImage
    \/ OpenImages
    \/ Call
    \/ CallReturns
    \/ CallRaises
    \/ ParseStore
    \/ ParseDisplay
    \/ Finally
    \/ Table

Spec == Init /\ [][Next]_vars

(* ---------------- the reply-parsing step on every text ----------------- *)
\* The state right after a model call on one image upload has returned, for
\* every reply text of at most MaxTextLen tokens; then the parse step runs.
InitParse ==
    /\ variant \in Variants
    /\ uploaded_files = <<[name |-> "inv_a", type |-> "image", pages |-> 1]>>
    /\ pc = "reply"
    /\ i = 1
    /\ fs = {[id |-> 1, written |-> TRUE]}
    /\ tmp_file_path = 1
    /\ images = IF variant = "multi_paged"
                THEN [set |-> TRUE, list |-> <<<<1, 1>>>>] ELSE Unassigned
    /\ preview = <<[doc |-> 1, imgs |-> <<<<1, 1>>>>]>>
    /\ text_content = ""
    /\ calls = <<[docs |-> {1}, payload |-> "image", empty |-> FALSE]>>
    /\ in_flight = {}
    /\ info_text \in Texts
    /\ all_extracted_data = <<>>
    /\ summary_df = NotShown
    /\ line_items = NotShown
    /\ errors = <<>>
    /\ exc = NoExc
    /\ combined_df = <<>>
    /\ info_formatted = NotParsed

NextParse ==
    \/ ParseStore
    \/ ParseDisplay

SpecParse == InitParse /\ [][NextParse]_vars

(* ------------------------------ helpers ------------------------------- *)
\* brace depth after the first k tokens of s
RECURSIVE Depth(_, _)
Depth(s, k) ==
    IF k = 0 THEN 0
    ELSE Depth(s, k - 1) + (IF s[k] = "{" THEN 1 ELSE IF s[k] = "}" THEN -1 ELSE 0)

Balanced(s) == Depth(s, Len(s)) = 0 /\ \A k \in 1..Len(s) : Depth(s, k) >= 0

\* s[a..b] is a valid JSON object, the prose before it and the prose after
\* it have balanced braces, and no valid JSON object of s lies outside it
SoleObject(s, a, b) ==
    /\ Loads(SubSeq(s, a, b)).ok
    /\ Balanced(SubSeq(s, 1, a - 1))
    /\ Balanced(SubSeq(s, b + 1, Len(s)))
    /\ \A c \in 1..Len(s) : \A d \in c..Len(s) :
          Loads(SubSeq(s, c, d)).ok => (a <= c /\ d <= b)

ParseDone == info_formatted.outcome # "none"

\* text has no "{", or no "}", or no "}" after its first "{", or its slice
\* from the first "{" through the last "}" is not valid JSON
C5_Malformed(text) ==
    \/ \A k \in 1..Len(text) : text[k] # "{"
    \/ \A k \in 1..Len(text) : text[k] # "}"
    \/ \A k \in 1..Len(text) : text[k] = "}" => \A j \in 1..k : text[j] # "{"
    \/ \E a \in 1..Len(text) : \E b \in a..Len(text) :
          /\ text[a] = "{" /\ \A j \in 1..(a - 1) : text[j] # "{"
          /\ text[b] = "}" /\ \A j \in (b + 1)..Len(text) : text[j] # "}"
          /\ ~Loads(SubSeq(text, a, b)).ok

RunEnded == pc \in {"done", "aborted"}
Failed(k) == exc.doc = k \/ \E e \in 1..Len(errors) : errors[e].doc = k
CallsOf(d) == {c \in 1..Len(calls) : calls[c].docs = {d}}

(* ------------------------------ claims -------------------------------- *)
\* C1: a reply that is one valid JSON object embedded in a text with
\* balanced braces (prose around it may hold braces) is decoded to exactly
\* that object by the first-brace / last-brace slice.
C1_ExtractsEmbeddedObject ==
    ParseDone =>
        \A a \in 1..Len(info_text) : \A b \in a..Len(info_text) :
            SoleObject(info_text, a, b) =>
                /\ info_formatted.outcome = "record"
                /\ info_formatted.val = Loads(SubSeq(info_text, a, b)).val

\* C2: in the batch loop a failure while processing one document is confined
\* to it: every document after a failed one still gets its own model call.
C2_FailureConfinedToDocument ==
    (variant = "multi_files" /\ RunEnded) =>
        \A j \in 1..N : (\E k \in 1..(j - 1) : Failed(k)) => CallsOf(j) # {}

\* C3: after the batch loop over N documents the batch result holds exactly
\* N entries, one per document.
C3_OneEntryPerDocument ==
    (variant = "multi_files" /\ pc = "done") => Len(all_extracted_data) = N

\* C4: every stored record has exactly the declared schema's keys.
C4_RecordKeysAreSchemaKeys ==
    variant = "multi_files" =>
        \A k \in 1..Len(all_extracted_data) :
            DOMAIN all_extracted_data[k].data = SchemaKeys

\* C5: a reply with no "{", or no "}", or whose "}" all precede the first
\* "{", or whose slice from the first "{" through the last "}" is not valid
\* JSON, ends in the parse-failure error and produces no record.
C5_MalformedReplyFails ==
    (ParseDone /\ C5_Malformed(info_text)) =>
        /\ info_formatted.outcome = "JSONDecodeError"
        /\ errors = <<[kind |-> "parse_failed", doc |-> i]>>
        /\ all_extracted_data = <<>>
        /\ ~summary_df.shown
        /\ ~line_items.shown

C5_Witness ==
    /\ ParseDone
    /\ info_formatted.outcome = "JSONDecodeError"
    /\ Find(info_text, "{") >= 0
    /\ RFind(info_text, "}") > Find(info_text, "{")

\* C6: every uploaded document causes exactly one model call of its own.
C6_OneCallPerDocument ==
    pc = "done" => (Len(calls) = N /\ \A d \in 1..N : Cardinality(CallsOf(d)) = 1)

\* C7: no model call is issued with an empty request (no page and no text).
C7_NoEmptyRequest ==
    \A c \in 1..Len(calls) : ~calls[c].empty

C9_FilenameWrittenOnce ==
    \A p \in 1..Len(all_extracted_data) : \A q \in 1..Len(all_extracted_data) :
        p # q => all_extracted_data[p].filename # all_extracted_data[q].filename

\* C10: the batch loop is strictly sequential in upload order: at most one
\* temp file exists and at most one call is in flight at any time, calls are
\* issued in upload order, and when document i is taken up every earlier
\* document has had its call answered, its reply stored or rejected and its
\* temp file deleted.
C10_StrictlySequential ==
    variant = "multi_files" =>
        /\ Cardinality(fs) <= 1
        /\ Cardinality(in_flight) <= 1
        /\ \A c \in 1..Len(calls) : \A e \in 1..Len(calls) :
              c < e => \E x \in calls[c].docs : \E y \in calls[e].docs : x < y
        /\ pc \in {"try", "call", "await", "reply", "finally"} =>
              /\ \A f \in fs : f.id = i
              /\ \A c \in 1..Len(calls) : calls[c].docs \subseteq 1..i
        /\ pc \in {"write", "try", "call", "await", "reply"} =>
              Len(all_extracted_data) + Len(errors) = i - 1
        /\ pc = "await" => (in_flight = {Len(calls)} /\ calls[Len(calls)].docs = {i})
        /\ pc # "await" => in_flight = {}

C10_Witness ==
    /\ variant = "multi_files"
    /\ pc = "await"
    /\ i = 2
    /\ fs = {[id |-> 2, written |-> TRUE]}
    /\ in_flight = {2}

\* C11: the batch result only grows and is never rewritten: every step of
\* the batch loop leaves all_extracted_data unchanged or appends one entry at
\* its end, and a step that reports a failed model call or a failed parse
\* leaves it unchanged.
C11_BatchResultOnlyGrows ==
    [][variant = "multi_files" =>
          /\ \/ all_extracted_data' = all_extracted_data
             \/ /\ Len(all_extracted_data') = Len(all_extracted_data) + 1
                /\ SubSeq(all_extracted_data', 1, Len(all_extracted_data))
                      = all_extracted_data
          /\ (errors' # errors \/ exc' # exc) =>
                all_extracted_data' = all_extracted_data]_vars

C11_Witness ==
    /\ variant = "multi_files"
    /\ i = 2
    /\ pc = "finally"
    /\ Len(all_extracted_data) = 1
    /\ errors = <<[kind |-> "parse_failed", doc |-> 2]>>

\* C12: in invoice.py and multi_paged_invoice.py, after a reply has been
\* decoded the summary table is shown without a line_items row, the
\* line-items table is shown exactly when the removed value is non-empty,
\* and a reply without the key gives a summary of all its keys and no
\* line-items table.
C12_LineItemsPoppedAndShown ==
    (variant \in {"invoice", "multi_paged"} /\ info_formatted.outcome = "record") =>
        LET reply == info_formatted.val
            removed == IF "line_items" \in DOMAIN reply THEN reply["line_items"] ELSE "[]"
        IN  /\ summary_df.shown
            /\ DOMAIN summary_df.rows = (DOMAIN reply) \ {"line_items"}
            /\ \A k \in DOMAIN summary_df.rows : summary_df.rows[k] = reply[k]
            /\ line_items.shown <=> Truthy(removed)
            /\ "line_items" \notin DOMAIN reply =>
                  (summary_df.rows = reply /\ ~line_items.shown)

\* C13: in the batch variant the images previewed for a PDF are that
\* document's own pages, one image per page in page order: the preview
\* never reads images while it is unassigned and never shows images that an
\* earlier document left behind.
C13_PreviewShowsOwnPages ==
    variant = "multi_files" =>
        /\ exc.kind # "NameError"
        /\ \A k \in 1..Len(preview) :
              uploaded_files[preview[k].doc].type = "pdf" =>
                 preview[k].imgs =
                    [p \in 1..uploaded_files[preview[k].doc].pages |-> <<preview[k].doc, p>>]

====
